---- MODULE Spec2Model ----
(***************************************************************************)
(* State-machine model of the stock sentiment dashboard component          *)
(* (frontend/src/App.tsx): the React state of App, the fetchStockData      *)
(* operation with its requests in flight, the search controls and the      *)
(* render functions of the chart region.                                   *)
(*                                                                         *)
(* Conventions.  A JavaScript string that the code takes apart (the input  *)
(* text, a ticker, a URL) is a sequence of one-character strings.  A       *)
(* nullable value is a sequence of length at most one: NULL is the empty   *)
(* sequence and a present value x is <<x>>.                                *)
(***************************************************************************)
EXTENDS Integers, Sequences, FiniteSets, TLC

(* ------------------------------ bounds --------------------------------- *)

\* longest text the user types or pastes into the search field
MaxLen == 2
\* longest enumerated historical series (the 8-row example is added to these)
MaxRows == 2
\* most invocations of fetchStockData outstanding at once (re-entrant harness)
MaxOutstanding == 2

(* --------------------------- JavaScript values -------------------------- *)

NULL == <<>>

Some(x) == <<x>>

\* characters the user can type: a letter and a blank
TypedChars == {"a", " "}

WhiteSpace == {" "}

RECURSIVE SeqsUpTo(_, _)
\* all sequences over S of length at most n
SeqsUpTo(S, n) ==
  IF n = 0 THEN {<<>>}
  ELSE LET shorter == SeqsUpTo(S, n - 1)
       IN  shorter \cup {Append(s, c) : s \in {t \in shorter : Len(t) = n - 1}, c \in S}

TypedTexts == SeqsUpTo(TypedChars, MaxLen)

\* String.prototype.toUpperCase on one character
UpperChar(c) == IF c = "a" THEN "A" ELSE c

ToUpperCaseNoop(s) == s

\* e.target.value.toUpperCase()
ToUpperCase(s) == [i \in 1..Len(s) |-> UpperChar(s[i])]

RECURSIVE TrimStart(_)
TrimStart(s) ==
  IF s = <<>> THEN <<>>
  ELSE IF Head(s) \in WhiteSpace THEN TrimStart(Tail(s)) ELSE s

RECURSIVE TrimEnd(_)
TrimEnd(s) ==
  IF s = <<>> THEN <<>>
  ELSE IF s[Len(s)] \in WhiteSpace THEN TrimEnd(SubSeq(s, 1, Len(s) - 1)) ELSE s

\* String.prototype.trim
Trim(s) == TrimEnd(TrimStart(s))

\* truthiness of a JavaScript string: the empty string is falsy
Truthy(s) == s # <<>>

SubmitGuardNoTrim(v) == Truthy(v)

\* the guard `inputValue.trim()` of the Enter and click handlers
SubmitGuard(v) == Truthy(Trim(v))

AAPL == <<"A", "A", "P", "L">>

BaseUrl == <<"http://localhost:8000/compare/">>

\* the template literal `http://localhost:8000/compare/${ticker}`
Url(ticker) == BaseUrl \o ticker

GenericError == "Failed to fetch stock data"

(* ----------------------------- responses -------------------------------- *)

Row(i, c) == [date |-> i, close |-> c]

\* a historical series from the closes of its rows; the date label is the row number
Series(closes) == [i \in 1..Len(closes) |-> Row(i, closes[i])]

Closes == {NULL, Some(10)}

\* rows 1-5 realized, rows 6-8 forecast
ExampleSeries ==
  Series(<<Some(10), Some(10), Some(10), Some(10), Some(10), NULL, NULL, NULL>>)

\* the historical field: absent, or a series
Historicals ==
  {NULL} \cup {Some(Series(cs)) : cs \in SeqsUpTo(Closes, MaxRows)}
         \cup {Some(ExampleSeries)}

Body(s, h) == [average_sentiment |-> s, historical |-> h]

Sentiments == {-1, 0, 1}

\* the JSON bodies the service answers with
Bodies ==
  {Body(0, h) : h \in Historicals} \cup {Body(s, Some(ExampleSeries)) : s \in Sentiments}

\* the ways axios.get rejects: no response at all, or a non-2xx response
\* whose body has no detail field, an empty one, or a message
Errors ==
  {[kind |-> "network", detail |-> NULL],
   [kind |-> "http", detail |-> NULL],
   [kind |-> "http", detail |-> Some("")],
   [kind |-> "http", detail |-> Some("Ticker not found")]}

\* err.response?.data?.detail
Detail(err) == IF err.kind = "network" THEN NULL ELSE err.detail

ErrorMessageGeneric(err) == Some(GenericError)

\* err.response?.data?.detail || "Failed to fetch stock data"
ErrorMessage(err) ==
  IF Detail(err) # NULL /\ Detail(err)[1] # "" THEN Detail(err) ELSE Some(GenericError)

(* ------------------------------- state ---------------------------------- *)

VARIABLES
  stockData,       \* useState<StockData | null>
  symbol,          \* useState("AAPL")
  inputValue,      \* useState("AAPL")
  loading,         \* useState(false)
  error,           \* useState<string | null>
  mounted,         \* whether the mount effect has run
  requests,        \* the GET requests in flight, in the order issued
  lastEvent,       \* the handler or continuation that ran last
  lastCompletion,  \* the request completed last, its outcome and the view it left
  lastResolved     \* the request fulfilled last and its body

vars == <<stockData, symbol, inputValue, loading, error, mounted, requests,
          lastEvent, lastCompletion, lastResolved>>

View == [stockData |-> stockData, symbol |-> symbol, error |-> error, loading |-> loading]

\* a request in flight; overtaken records that a request issued later has
\* already been fulfilled
Request(ticker) == [ticker |-> ticker, url |-> Url(ticker), overtaken |-> FALSE]

Init ==
  /\ stockData = NULL
  /\ symbol = AAPL
  /\ inputValue = AAPL
  /\ loading = FALSE
  /\ error = NULL
  /\ mounted = FALSE
  /\ requests = <<>>
  /\ lastEvent = [kind |-> "init"]
  /\ lastCompletion = NULL
  /\ lastResolved = NULL

(* ------------------------------ operations ------------------------------ *)

fetchStockDataKeepLoading(ticker) ==
  /\ error' = NULL
  /\ requests' = Append(requests, Request(ticker))
  /\ UNCHANGED <<loading, stockData, symbol>>

fetchStockDataKeepError(ticker) ==
  /\ loading' = TRUE
  /\ requests' = Append(requests, Request(ticker))
  /\ UNCHANGED <<error, stockData, symbol>>

\* fetchStockData up to its await: setLoading(true), setError(null), axios.get
fetchStockData(ticker) ==
  /\ loading' = TRUE
  /\ error' = NULL
  /\ requests' = Append(requests, Request(ticker))
  /\ UNCHANGED <<stockData, symbol>>

\* useEffect(() => { fetchStockData(symbol) }, [])
Mount ==
  /\ ~mounted
  /\ mounted' = TRUE
  /\ fetchStockData(symbol)
  /\ lastEvent' = [kind |-> "mount"]
  /\ UNCHANGED <<inputValue, lastCompletion, lastResolved>>

DisabledNever == FALSE

\* disabled={loading} on the search input and on the search button
Disabled == loading

\* onChange of the search input
OnChange(v) ==
  /\ mounted
  /\ ~Disabled
  /\ inputValue' = ToUpperCase(v)
  /\ lastEvent' = [kind |-> "change"]
  /\ UNCHANGED <<stockData, symbol, loading, error, mounted, requests,
                 lastCompletion, lastResolved>>

Keys == {"Enter", "a"}

\* onKeyDown of the search input
OnKeyDown(key) ==
  /\ mounted
  /\ ~Disabled
  /\ lastEvent' = [kind |-> "keydown", key |-> key]
  /\ IF key = "Enter" /\ SubmitGuard(inputValue)
       THEN fetchStockData(Trim(inputValue))
       ELSE UNCHANGED <<stockData, symbol, loading, error, requests>>
  /\ UNCHANGED <<inputValue, mounted, lastCompletion, lastResolved>>

\* onClick of the search button
OnClick ==
  /\ mounted
  /\ ~Disabled
  /\ lastEvent' = [kind |-> "click"]
  /\ IF SubmitGuard(inputValue)
       THEN fetchStockData(Trim(inputValue))
       ELSE UNCHANGED <<stockData, symbol, loading, error, requests>>
  /\ UNCHANGED <<inputValue, mounted, lastCompletion, lastResolved>>

\* the requests left in flight when request i is fulfilled
RemoveMarking(i) ==
  [j \in 1..(Len(requests) - 1) |->
     IF j < i THEN [requests[j] EXCEPT !.overtaken = TRUE] ELSE requests[j + 1]]

\* the requests left in flight when request i is rejected
Remove(i) ==
  [j \in 1..(Len(requests) - 1) |-> IF j < i THEN requests[j] ELSE requests[j + 1]]

\* the record of a completion: the ticker requested, the outcome, the view the
\* completion left, whether a payload was stored when it ran, and whether it
\* repeats the completion before it (same ticker, same outcome)
Completion(ticker, outcome, view) ==
  Some([ticker |-> ticker, outcome |-> outcome, view |-> view,
        hadPayload |-> stockData # NULL,
        repeat |-> /\ lastCompletion # NULL
                   /\ lastCompletion[1].ticker = ticker
                   /\ lastCompletion[1].outcome = outcome])

StoredPayloadMerge(prev, body) ==
  IF prev = NULL \/ prev[1].historical = NULL \/ body.historical = NULL
    THEN Some(body)
    ELSE Some([body EXCEPT !.historical = Some(prev[1].historical[1] \o body.historical[1])])

\* setStockData(res.data)
StoredPayload(prev, body) == Some(body)

CurrentSymbolKeep(prev, ticker) == prev

\* setSymbol(ticker)
CurrentSymbol(prev, ticker) == ticker

ApplyResponseIfLatest(req) == ~req.overtaken

\* whether the continuation applies the response it awaited
ApplyResponse(req) == TRUE

\* the await of request i resumes with a fulfilled promise: try body, then finally
Resolve(i, body) ==
  /\ i \in 1..Len(requests)
  /\ IF ApplyResponse(requests[i])
       THEN /\ stockData' = StoredPayload(stockData, body)
            /\ symbol' = CurrentSymbol(symbol, requests[i].ticker)
       ELSE UNCHANGED <<stockData, symbol>>
  /\ loading' = FALSE
  /\ requests' = RemoveMarking(i)
  /\ lastEvent' = [kind |-> "resolve"]
  /\ lastResolved' = Some([req |-> requests[i], body |-> body])
  /\ lastCompletion' = Completion(requests[i].ticker, [ok |-> TRUE, body |-> body],
                                   [stockData |-> stockData', symbol |-> symbol',
                                    error |-> error, loading |-> FALSE])
  /\ UNCHANGED <<inputValue, error, mounted>>

RejectKeepLoading(i, err) ==
  /\ i \in 1..Len(requests)
  /\ error' = ErrorMessage(err)
  /\ requests' = Remove(i)
  /\ lastEvent' = [kind |-> "reject"]
  /\ lastCompletion' = Completion(requests[i].ticker, [ok |-> FALSE, err |-> err],
                                   [stockData |-> stockData, symbol |-> symbol,
                                    error |-> error', loading |-> loading])
  /\ UNCHANGED <<stockData, symbol, inputValue, loading, mounted, lastResolved>>

\* the await of request i resumes with a rejected promise: catch, then finally
Reject(i, err) ==
  /\ i \in 1..Len(requests)
  /\ error' = ErrorMessage(err)
  /\ loading' = FALSE
  /\ requests' = Remove(i)
  /\ lastEvent' = [kind |-> "reject"]
  /\ lastCompletion' = Completion(requests[i].ticker, [ok |-> FALSE, err |-> err],
                                   [stockData |-> stockData, symbol |-> symbol,
                                    error |-> error', loading |-> FALSE])
  /\ UNCHANGED <<stockData, symbol, inputValue, mounted, lastResolved>>

\* a request in flight completes, one way or the other
Complete ==
  \E i \in 1..Len(requests) :
    \/ \E body \in Bodies : Resolve(i, body)
    \/ \E err \in Errors : Reject(i, err)

\* fetchStockData called by any caller at any time: the function itself has
\* no guard against a call that overlaps an outstanding one
Invoke(ticker) ==
  /\ mounted
  /\ Len(requests) < MaxOutstanding
  /\ fetchStockData(ticker)
  /\ lastEvent' = [kind |-> "invoke"]
  /\ UNCHANGED <<inputValue, mounted, lastCompletion, lastResolved>>

(* ------------------------------- renderer ------------------------------- *)

\* the condition `error ?` of the chart section: null and "" are falsy
ErrorShown == error # NULL /\ error[1] # ""

\* stockData && stockData.historical && stockData.historical.length > 0
HasSeries ==
  /\ stockData # NULL
  /\ stockData[1].historical # NULL
  /\ Len(stockData[1].historical[1]) > 0

ChartRegionDataFirst ==
  IF loading THEN "loading"
  ELSE IF HasSeries THEN "chart"
  ELSE IF ErrorShown THEN "error"
  ELSE "placeholder"

\* the conditional of the chart section
ChartRegion ==
  IF loading THEN "loading"
  ELSE IF ErrorShown THEN "error"
  ELSE IF HasSeries THEN "chart"
  ELSE "placeholder"

RECURSIVE FindIndexFrom(_, _)
\* Array.prototype.findIndex((d) => d.close === null), scanning from the
\* 0-based index k; -1 when no row matches
FindIndexFrom(h, k) ==
  IF k >= Len(h) THEN -1
  ELSE IF h[k + 1].close = NULL THEN k
  ELSE FindIndexFrom(h, k + 1)

\* getPredictionStartIndex
getPredictionStartIndex ==
  IF stockData = NULL \/ stockData[1].historical = NULL THEN -1
  ELSE FindIndexFrom(stockData[1].historical[1], 0)

AnchorRowAtBoundary(idx) == idx + 1

\* the row historical[idx - 1] of the marker, as a 1-based row number
AnchorRow(idx) == idx

\* the x of the ReferenceLine drawn inside the chart, NULL when none is drawn
BoundaryMarker ==
  IF ChartRegion = "chart" /\ getPredictionStartIndex > 0
    THEN Some(stockData[1].historical[1][AnchorRow(getPredictionStartIndex)].date)
    ELSE NULL

\* isPositive
isPositive(value) == value >= 0

\* the className of the average-sentiment badge
BadgeColour ==
  IF stockData # NULL /\ isPositive(stockData[1].average_sentiment)
    THEN "green"
    ELSE "red"

\* the text of the average-sentiment badge
BadgeText ==
  IF loading THEN "Loading..."
  ELSE IF stockData # NULL
    THEN (IF stockData[1].average_sentiment > 0 THEN "Positive" ELSE "Negative")
  ELSE "---"

(* ---------------------------- specifications ---------------------------- *)

\* the tickers fetchStockData is called with when driven without the controls
Tickers == {AAPL, <<"A">>}

Next ==
  \/ Mount
  \/ \E v \in TypedTexts : OnChange(v)
  \/ \E key \in Keys : OnKeyDown(key)
  \/ OnClick
  \/ \E i \in 1..Len(requests), body \in Bodies : Resolve(i, body)
  \/ \E i \in 1..Len(requests), err \in Errors : Reject(i, err)

\* the component as rendered: requests are issued by the mount effect and by
\* the enabled search controls only
Spec == Init /\ [][Next]_vars

\* every issued request eventually resolves or rejects
FairSpec == Spec /\ WF_vars(Complete)

NextReentrant ==
  \/ Mount
  \/ \E t \in Tickers : Invoke(t)
  \/ \E i \in 1..Len(requests), body \in Bodies : Resolve(i, body)
  \/ \E i \in 1..Len(requests), err \in Errors : Reject(i, err)

\* fetchStockData as an operation on the view state, driven without the
\* search controls: it may be called again before an earlier call has returned
SpecReentrant == Init /\ [][NextReentrant]_vars

(* -------------------------------- claims -------------------------------- *)

\* the step just taken is a submit action: Enter in the field, or a click
SubmitStep ==
  \/ lastEvent'.kind = "click"
  \/ lastEvent'.kind = "keydown" /\ lastEvent'.key = "Enter"

\* the step just taken is the completion of a request
CompletionStep == lastEvent'.kind \in {"resolve", "reject"}

\* the text is empty or consists only of whitespace
Blank(s) == \A k \in 1..Len(s) : s[k] \in WhiteSpace

\* C1: whenever a request is outstanding, loading is true and the search
\* input and button are disabled.
C1_LoadingWhileOutstanding == requests # <<>> => (loading /\ Disabled)

\* a search issued from the enabled controls is outstanding
C1_Witness ==
  /\ requests # <<>>
  /\ lastEvent.kind = "click"
  /\ lastCompletion # NULL
  /\ loading

\* C2: when calls of fetchStockData overlap, the response fulfilled last
\* determines the stored payload and the current symbol, whichever request
\* was issued last.
C2_LastResolvedWins ==
  lastResolved # NULL =>
    /\ stockData = Some(lastResolved[1].body)
    /\ symbol = lastResolved[1].req.ticker

\* the first of two overlapping requests was fulfilled after the second, and
\* its body and ticker are what is stored once nothing is outstanding
C2_Witness ==
  /\ requests = <<>>
  /\ lastEvent.kind = "resolve"
  /\ lastResolved # NULL
  /\ lastResolved[1].req.overtaken
  /\ lastResolved[1].req.ticker = AAPL
  /\ lastCompletion[1].hadPayload
  /\ stockData = Some(lastResolved[1].body)
  /\ symbol = AAPL

\* C3: every completion, fulfilled or rejected, leaves loading false; and if
\* every issued request completes, loading always becomes false again, which
\* re-enables the search controls.
C3_LoadingReturnsToFalse ==
  /\ [][CompletionStep => (~loading' /\ ~Disabled')]_vars
  /\ (loading ~> (~loading /\ ~Disabled))

\* a rejected request has left the controls enabled
C3_Witness ==
  /\ lastEvent.kind = "reject"
  /\ ~loading
  /\ ~Disabled
  /\ requests = <<>>

\* C4: a fulfilled request replaces the stored payload by the response body,
\* sets the current symbol to the requested ticker, and leaves the error as
\* cleared at request start.
C4_SuccessReplacesPayload ==
  [][lastEvent'.kind = "resolve" =>
       /\ stockData' = Some(lastResolved'[1].body)
       /\ symbol' = lastResolved'[1].req.ticker
       /\ error' = NULL]_vars

\* a response replaced an earlier payload, for a ticker other than the default
C4_Witness ==
  /\ lastEvent.kind = "resolve"
  /\ lastCompletion[1].hadPayload
  /\ symbol = <<"A">>
  /\ stockData = Some(Body(0, Some(Series(<<Some(10)>>))))
  /\ error = NULL

\* the error detail of the response body, NULL when the rejection carries none
ResponseDetail(err) == IF err.kind = "http" THEN err.detail ELSE NULL

\* C5 as stated: a rejected request sets the error to the detail field if
\* present and to the generic string otherwise, and leaves the stored payload
\* and the current symbol as they were.
C5_Original ==
  [][lastEvent'.kind = "reject" =>
       LET d == ResponseDetail(lastCompletion'[1].outcome.err)
       IN  /\ error' = (IF d # NULL THEN d ELSE Some(GenericError))
           /\ UNCHANGED <<stockData, symbol>>]_vars

\* C5 as amended: a rejected request sets the error to the detail field if
\* present and non-empty and to the generic string otherwise, and leaves the
\* stored payload and the current symbol as they were.
C5_FailureSetsError ==
  [][lastEvent'.kind = "reject" =>
       LET d == ResponseDetail(lastCompletion'[1].outcome.err)
       IN  /\ error' = (IF d # NULL /\ d # Some("") THEN d ELSE Some(GenericError))
           /\ UNCHANGED <<stockData, symbol>>]_vars

\* a rejection with a detail message left the earlier payload in place
C5_Witness ==
  /\ lastEvent.kind = "reject"
  /\ lastCompletion[1].outcome.err.detail = Some("Ticker not found")
  /\ error = Some("Ticker not found")
  /\ lastCompletion[1].hadPayload
  /\ stockData # NULL

\* C6: a submit action on a text that is non-empty after trimming issues
\* exactly one GET request, to the endpoint with the trimmed, upper-cased
\* text as the ticker.
C6_SubmitIssuesOneRequest ==
  [][(SubmitStep /\ ~Blank(inputValue)) =>
       LET up == [k \in 1..Len(inputValue) |-> UpperChar(inputValue[k])]
       IN  \E lo, hi \in 1..Len(up) :
             /\ lo <= hi
             /\ up[lo] \notin WhiteSpace
             /\ up[hi] \notin WhiteSpace
             /\ \A k \in 1..Len(up) : (k < lo \/ k > hi) => up[k] \in WhiteSpace
             /\ requests' = Append(requests,
                  [ticker |-> SubSeq(up, lo, hi),
                   url |-> <<"http://localhost:8000/compare/">> \o SubSeq(up, lo, hi),
                   overtaken |-> FALSE])]_vars

\* a click on " A" has issued the one request for "A"
C6_Witness ==
  /\ lastEvent.kind = "click"
  /\ inputValue = <<" ", "A">>
  /\ Len(requests) = 1
  /\ requests[1].url = <<"http://localhost:8000/compare/", "A">>

\* C7: a submit action on an empty or whitespace-only text issues no request
\* and leaves loading, error, stored payload and current symbol unchanged.
C7_BlankSubmitDoesNothing ==
  [][(SubmitStep /\ Blank(inputValue)) =>
       UNCHANGED <<requests, loading, error, stockData, symbol>>]_vars

\* Enter on a whitespace-only text, with nothing issued
C7_Witness ==
  /\ lastEvent = [kind |-> "keydown", key |-> "Enter"]
  /\ inputValue = <<" ">>
  /\ requests = <<>>
  /\ ~loading

\* C8: the chart region shows the loading indicator if loading; else the
\* error message if error is non-null; else the chart if the stored payload
\* has a non-empty historical series; else the placeholder.
C8_ChartRegionPriority ==
  ChartRegion =
    (IF loading = TRUE THEN "loading"
     ELSE IF error # NULL THEN "error"
     ELSE IF \E r \in 1..8 :
               /\ stockData # NULL
               /\ stockData[1].historical # NULL
               /\ r \in DOMAIN stockData[1].historical[1]
          THEN "chart"
     ELSE "placeholder")

\* the error message is shown although a payload with a series is stored
C8_Witness ==
  /\ ~loading
  /\ error # NULL
  /\ HasSeries
  /\ ChartRegion = "error"

\* C9: a completion that repeats the one before it (same ticker, same
\* response) leaves the view state the earlier completion left.
C9_RepeatedSearchIdempotent ==
  [][(CompletionStep /\ lastCompletion # NULL
        /\ lastCompletion'[1].ticker = lastCompletion[1].ticker
        /\ lastCompletion'[1].outcome = lastCompletion[1].outcome) =>
       View' = lastCompletion[1].view]_vars

\* the same search was fulfilled twice with the same non-empty series
C9_Witness ==
  /\ lastEvent.kind = "resolve"
  /\ lastCompletion[1].repeat
  /\ lastCompletion[1].outcome.body = Body(1, Some(ExampleSeries))
  /\ View = lastCompletion[1].view
  /\ stockData = Some(Body(1, Some(ExampleSeries)))

\* the rows of the stored series whose close is null
NullCloseRows ==
  {r \in DOMAIN stockData[1].historical[1] : stockData[1].historical[1][r].close = NULL}

\* C10: when the chart is drawn, the boundary marker is anchored at the row
\* immediately before the first row whose close is null (row 5 for the 8-row
\* example); no marker is drawn when no row has a null close or when the
\* first row has one.
C10_MarkerBeforeFirstNullClose ==
  ChartRegion = "chart" =>
    /\ (NullCloseRows = {} \/ 1 \in NullCloseRows) => BoundaryMarker = NULL
    /\ (NullCloseRows # {} /\ 1 \notin NullCloseRows) =>
         \E r \in NullCloseRows :
           /\ \A q \in NullCloseRows : r <= q
           /\ BoundaryMarker = Some(stockData[1].historical[1][r - 1].date)
    /\ stockData[1].historical[1] = ExampleSeries => BoundaryMarker = Some(5)

\* the 8-row example is drawn with its marker at row 5
C10_Witness ==
  /\ ChartRegion = "chart"
  /\ stockData[1].historical[1] = ExampleSeries
  /\ BoundaryMarker = Some(5)

C12_OneOutstandingSymbolCurrent ==
  /\ Len(requests) <= 1
  /\ IF lastResolved = NULL
       THEN symbol = <<"A", "A", "P", "L">>
       ELSE /\ symbol = lastResolved[1].req.ticker
            /\ ~lastResolved[1].req.overtaken

\* a later search is outstanding while the symbol is still the ticker of the
\* search fulfilled before it
C12_Witness ==
  /\ Len(requests) = 1
  /\ lastEvent.kind = "click"
  /\ lastResolved # NULL
  /\ symbol = <<"A">>
  /\ requests[1].ticker = <<"A", "A">>

\* C13: for every stored payload shown while not loading, the badge reads
\* "Positive" exactly when it is green and "Negative" exactly when it is red.
C13_BadgeTextMatchesColour ==
  (~loading /\ stockData # NULL) =>
    /\ (BadgeText = "Positive") <=> (BadgeColour = "green")
    /\ (BadgeText = "Negative") <=> (BadgeColour = "red")

====
